---- MODULE Spec2Model ----
(***************************************************************************)
(* A model of the commit-volume pipeline:                                  *)
(*   - the incremental scan of fetch_github_data.py (checkpoint + cache),  *)
(*   - the bulk fetch step of main.py / fetch_bigquery.py,                 *)
(*   - cap_outliers / load_commits and assign_levels of visualize.py.      *)
(* Calendar dates are day numbers 1..MaxDay, months are month numbers; the *)
(* ISO strings of the program order the same way as these numbers.         *)
(***************************************************************************)
EXTENDS Integers, Sequences, FiniteSets, TLC

\* ------------------------------------------------------------------ bounds
MaxDay == 3
DaysPerMonth == 2
MaxRuns == 3
MaxCount == 2
MaxEvents == 8
MaxLen == 5

\* -------------------------------------------------------- program constants
MAX_RETRIES == 5
RETRY_BACKOFF == <<2, 5, 15, 30, 60>>
HoursPerDay == 24
ANNOTATION_LEVELS == 6
MIN_DAY_GAP == 20

Days == 1..MaxDay
Hours == 0..(HoursPerDay - 1)
\* day.strftime("%Y-%m"): a month key 'YYYY-MM' is the pair <<year, month>>;
\* the days of the model are the first days of 2023, DaysPerMonth to a month.
MonthOf(day) == <<2023, ((day - 1) \div DaysPerMonth) + 1>>

VARIABLES
    \* the two files of the incremental scan (and the bulk path's cache)
    csvFile, ckptFile,
    \* fetch(): position and locals
    pc, run, done_days, totals, pending, dayIdx, day_commits, missing_hours,
    \* the remote archive: the day (0: none) whose hour 11 is down for good
    outageDay,
    \* observation of the run: hours attempted for the current day, HTTP
    \* requests issued by the run, the results of the current day's hourly
    \* fetches in order, the (day, hour) pairs with an [ERROR] line on stderr
    attempted, requests, dayLog, errLog,
    \* bookkeeping of contributions: how many times each day's total has been
    \* added into the in-memory totals / into the cache file, and the hours
    \* attempted when the day was last added to done_days
    memDays, csvDays, doneAttempts,
    \* the number of runs of fetch started so far
    nruns,
    \* the bulk path: the remote monthly tables (month -> SUM of sizes, or Null)
    \* and what the last run of main() did
    archive, mainRun,
    \* assign_levels: the events consumed so far (their dates, as day numbers),
    \* the gap it was called with, and its locals level_last and levels
    events, min_day_gap, level_last, levels,
    \* load_commits: the month range it was called with and the frame it
    \* returned
    plot_start, plot_end, df

scanVars == <<csvFile, ckptFile, pc, run, done_days, totals, pending, dayIdx,
              day_commits, missing_hours, outageDay, attempted, requests,
              dayLog, errLog, memDays, csvDays, doneAttempts, nruns>>

\* the variables of the scan other than the cache file
scanLocals == <<ckptFile, pc, run, done_days, totals, pending, dayIdx,
                day_commits, missing_hours, outageDay, attempted, requests,
                dayLog, errLog, memDays, csvDays, doneAttempts, nruns>>
bulkVars == <<archive, mainRun>>
levelVars == <<events, min_day_gap, level_last, levels>>
chartVars == <<plot_start, plot_end, df>>

vars == <<scanVars, bulkVars, levelVars, chartVars>>

\* ------------------------------------------------------------ dictionaries
\* A Python dict is a function on its key set.
EmptyDict == [k \in {} |-> 0]
Get(dict, key, default) == IF key \in DOMAIN dict THEN dict[key] ELSE default
Put(dict, key, value) ==
    [k \in (DOMAIN dict) \cup {key} |-> IF k = key THEN value ELSE dict[k]]
\* dict.update(other)
Update(dict, other) ==
    [k \in (DOMAIN dict) \cup (DOMAIN other) |->
        IF k \in DOMAIN other THEN other[k] ELSE dict[k]]

Min(S) == CHOOSE x \in S : \A y \in S : x <= y
Max(S) == CHOOSE x \in S : \A y \in S : x >= y
Abs(n) == IF n < 0 THEN 0 - n ELSE n

RECURSIVE Sorted(_)
\* sorted(done_days): ISO dates ascending
Sorted(S) == IF S = {} THEN <<>>
             ELSE LET m == Min(S) IN <<m>> \o Sorted(S \ {m})

\* 'YYYY-MM' strings compare as their (year, month) pairs do
MonthLeq(a, b) == a[1] < b[1] \/ (a[1] = b[1] /\ a[2] <= b[2])

RECURSIVE SortedMonths(_)
\* sorted(totals): month keys ascending
SortedMonths(S) ==
    IF S = {} THEN <<>>
    ELSE LET m == CHOOSE x \in S : \A y \in S : MonthLeq(x, y)
         IN <<m>> \o SortedMonths(S \ {m})

RECURSIVE SumSeq(_)
SumSeq(s) == IF s = <<>> THEN 0 ELSE Head(s) + SumSeq(Tail(s))

\* ------------------------------------------------- text cells of the cache
\* (variant: only the last digit is written)
FormatInt_lastDigit(n) == <<n % 10>>

RECURSIVE FormatInt(_)
\* str(n) for n >= 0: its decimal digits
FormatInt(n) == IF n < 10 THEN <<n>> ELSE Append(FormatInt(n \div 10), n % 10)

RECURSIVE ParseInt(_)
\* int(cell) of a digit string
ParseInt(cell) ==
    IF Len(cell) = 0 THEN 0
    ELSE 10 * ParseInt(SubSeq(cell, 1, Len(cell) - 1)) + cell[Len(cell)]

CsvHeader == <<"month", "commits">>
NoFile == [exists |-> FALSE, header |-> <<>>, rows |-> <<>>]
NoCheckpoint == [exists |-> FALSE, lines |-> <<>>]

\* iter_date_range(start, end)
IterDateRange(start, end) ==
    IF start > end THEN <<>> ELSE [i \in 1..(end - start + 1) |-> start + i - 1]

\* load_checkpoint()
LoadCheckpoint(file) ==
    IF file.exists THEN {file.lines[i] : i \in DOMAIN file.lines} ELSE {}

\* (variant: the latest day is left out of the file)
SaveCheckpoint_dropLast(done) ==
    [exists |-> TRUE, lines |-> Sorted(done \ {Max(done)})]

\* save_checkpoint(done_days)
SaveCheckpoint(done) == [exists |-> TRUE, lines |-> Sorted(done)]

\* load_existing_csv(): later rows of a month overwrite earlier ones
LoadExistingCsv(file) ==
    IF ~file.exists THEN EmptyDict
    ELSE LET rows == file.rows
             keys == {rows[i][1] : i \in DOMAIN rows}
             last(k) == CHOOSE i \in DOMAIN rows :
                           /\ rows[i][1] = k
                           /\ \A j \in DOMAIN rows : rows[j][1] = k => j <= i
         IN [k \in keys |-> ParseInt(rows[last(k)][2])]

\* save_csv(totals): header, then one row per month in sorted order
SaveCsv(tot) ==
    LET months == SortedMonths(DOMAIN tot)
    IN [exists |-> TRUE, header |-> CsvHeader,
        rows |-> [i \in DOMAIN months |-> <<months[i], FormatInt(tot[months[i]])>>]]

\* ------------------------------------------------------- the remote archive
Push(size) == [kind |-> "event", type |-> "PushEvent", payloadIsDict |-> TRUE,
               sizeIsInt |-> TRUE, size |-> size]
PushNoSize == [kind |-> "event", type |-> "PushEvent", payloadIsDict |-> TRUE,
               sizeIsInt |-> FALSE, size |-> 0]
PushBadPayload == [kind |-> "event", type |-> "PushEvent", payloadIsDict |-> FALSE,
                   sizeIsInt |-> FALSE, size |-> 0]
OtherEvent == [kind |-> "event", type |-> "WatchEvent", payloadIsDict |-> TRUE,
               sizeIsInt |-> FALSE, size |-> 0]
BadJson == [kind |-> "badjson", type |-> "", payloadIsDict |-> FALSE,
            sizeIsInt |-> FALSE, size |-> 0]
NonDict == [kind |-> "nondict", type |-> "", payloadIsDict |-> FALSE,
            sizeIsInt |-> FALSE, size |-> 0]
Blank == [kind |-> "blank", type |-> "", payloadIsDict |-> FALSE,
          sizeIsInt |-> FALSE, size |-> 0]
\* the compressed stream ends before its end-of-stream marker (EOFError)
Truncated == [kind |-> "truncated", type |-> "", payloadIsDict |-> FALSE,
              sizeIsInt |-> FALSE, size |-> 0]

\* The lines of the hourly file of (day, hour).
Body(day, hr) ==
    CASE hr = 9 -> <<Push(1), BadJson, Blank, Push(2), PushNoSize>>
      [] hr = 17 /\ day = 2 -> <<Push(1), NonDict, Push(1)>>
      [] hr = 19 /\ day = 1 -> <<Push(2), PushBadPayload, Push(3)>>
      [] hr = 14 /\ day = 3 -> <<Push(2), Truncated>>
      [] OTHER -> <<Push((day + hr) % 3), OtherEvent, Push(0 - 1)>>

\* The archives: outage day 0 (none), a day, or AllDown (no request ever
\* succeeds).
AllDown == MaxDay + 1
Outages == 0..AllDown

\* What requests.get answers on the given attempt for (day, hour) when the
\* archive's outage day is `outage`: hour 11 of the outage day always fails;
\* hour 5 fails on its first 2*day - 1 attempts; the last hours of the last
\* day are not published yet.
Response(outage, day, hr, attempt) ==
    IF outage = AllDown THEN [status |-> "error", lines |-> <<>>]
    ELSE IF day = outage /\ hr = 11 THEN [status |-> "error", lines |-> <<>>]
    ELSE IF hr = 5 /\ attempt <= 2 * day - 1 THEN [status |-> "error", lines |-> <<>>]
    ELSE IF day = MaxDay /\ hr >= 22 THEN [status |-> "404", lines |-> <<>>]
    ELSE [status |-> "200", lines |-> Body(day, hr)]

RECURSIVE ScanLines(_, _, _)
\* The loop over the decompressed lines; raised: an exception left the loop.
ScanLines(lines, i, commit_count) ==
    IF i > Len(lines) THEN [raised |-> FALSE, n |-> commit_count]
    ELSE LET line == lines[i] IN
         IF line.kind = "blank" THEN ScanLines(lines, i + 1, commit_count)
         ELSE IF line.kind = "badjson" THEN ScanLines(lines, i + 1, commit_count)
         ELSE IF line.kind = "nondict" THEN [raised |-> TRUE, n |-> 0]
         ELSE IF line.kind = "truncated" THEN [raised |-> TRUE, n |-> 0]
         ELSE IF line.type # "PushEvent" THEN ScanLines(lines, i + 1, commit_count)
         ELSE IF ~line.payloadIsDict THEN [raised |-> TRUE, n |-> 0]
         ELSE IF line.sizeIsInt /\ line.size > 0
              THEN ScanLines(lines, i + 1, commit_count + line.size)
              ELSE ScanLines(lines, i + 1, commit_count)

\* The except clause of stream_hourly_file: give up (re-raise) or retry.
GiveUp(attempt) == attempt > MAX_RETRIES \/ attempt > Len(RETRY_BACKOFF)

RECURSIVE Attempt(_, _, _, _, _)
\* The retry loop of stream_hourly_file from the given attempt on; slept
\* collects the delays passed to time.sleep.
Attempt(outage, day, hr, attempt, slept) ==
    LET resp == Response(outage, day, hr, attempt) IN
    IF resp.status = "error"
    THEN IF GiveUp(attempt)
         THEN [raised |-> TRUE, n |-> 0, attempts |-> attempt, slept |-> slept,
               logged |-> TRUE]
         ELSE Attempt(outage, day, hr, attempt + 1,
                      Append(slept, RETRY_BACKOFF[attempt]))
    ELSE IF resp.status = "404"
    THEN [raised |-> FALSE, n |-> 0 - 1, attempts |-> attempt, slept |-> slept,
          logged |-> FALSE]
    ELSE LET scan == ScanLines(resp.lines, 1, 0)
         IN [raised |-> scan.raised, n |-> scan.n, attempts |-> attempt,
             slept |-> slept, logged |-> FALSE]

\* stream_hourly_file(day, hour) against each archive, tabulated.
HourResults ==
    [o \in Outages |-> [d \in Days |-> [h \in Hours |-> Attempt(o, d, h, 1, <<>>)]]]

\* stream_hourly_file(day, hour)
StreamHourlyFile(outage, day, hr) == HourResults[outage][day][hr]

\* What the hour adds to day_commits in fetch's inner loop.
HourContribution(r) == IF r.raised \/ r.n = 0 - 1 THEN 0 ELSE r.n

\* (variant: the checkpoint is not consulted)
Pending_ignoreDone(all_dates, done) == all_dates

\* pending = [d for d in all_dates if d not in done_days]
Pending(all_dates, done) == SelectSeq(all_dates, LAMBDA d : d \notin done)

\* (variant: every run starts from an empty completed set)
InitialDone_alwaysEmpty(force, file) == {}

\* done_days = set() if force else load_checkpoint()
InitialDone(force, file) == IF force THEN {} ELSE LoadCheckpoint(file)

\* (variant: the loop stops one hour short)
HoursLeft_short(hr) == hr < HoursPerDay - 1

\* The hours of `for hour in range(24)` still to run, from hour hr on.
HoursLeft(hr) == hr < HoursPerDay

RECURSIVE HourLoop(_, _, _, _)
\* The inner loop of fetch from hour hr on; acc holds day_commits,
\* missing_hours and what the loop has done so far.
HourLoop(outage, day, hr, acc) ==
    IF ~HoursLeft(hr) THEN acc
    ELSE LET r == StreamHourlyFile(outage, day, hr)
         IN HourLoop(outage, day, hr + 1,
                [day_commits |-> acc.day_commits + HourContribution(r),
                 missing_hours |-> IF ~r.raised /\ r.n = 0 - 1
                                   THEN acc.missing_hours + 1
                                   ELSE acc.missing_hours,
                 attempted |-> acc.attempted \cup {hr},
                 requests |-> acc.requests + r.attempts,
                 errors |-> IF r.logged THEN acc.errors \cup {<<day, hr>>}
                            ELSE acc.errors,
                 log |-> Append(acc.log,
                            [hour |-> hr, raised |-> r.raised, n |-> r.n,
                             attempts |-> r.attempts, slept |-> r.slept,
                             logged |-> r.logged,
                             contrib |-> HourContribution(r)])])

NewDay == [day_commits |-> 0, missing_hours |-> 0, attempted |-> {},
           requests |-> 0, errors |-> {}, log |-> <<>>]

\* The inner loop of every day against each archive, tabulated.
DayLoops == [o \in Outages |-> [d \in Days |-> HourLoop(o, d, 0, NewDay)]]

\* totals[month_key] = totals.get(month_key, 0) + day_commits
AddDay(tot, day, commits) == Put(tot, MonthOf(day), Get(tot, MonthOf(day), 0) + commits)

\* ---- one uninterrupted run of fetch, as a function of the files it starts from
DayCommits(day) == DayLoops[outageDay][day].day_commits

RECURSIVE RunTotals(_, _)
RunTotals(tot, pend) ==
    IF pend = <<>> THEN tot
    ELSE RunTotals(AddDay(tot, Head(pend), DayCommits(Head(pend))), Tail(pend))

UninterruptedCsv(file, pend) ==
    IF pend = <<>> THEN file ELSE SaveCsv(RunTotals(LoadExistingCsv(file), pend))

\* ------------------------------------------------------------ the bulk path
Null == 0 - 1
BulkMonths == {<<2023, 11>>, <<2023, 12>>, <<2024, 1>>}

\* _suffix: 'YYYY-MM' -> 'YYYYMM' (six digits, ordered as the number they spell)
Suffix(yyyy_mm) == yyyy_mm[1] * 100 + yyyy_mm[2]

\* fetch_bigquery.fetch over the tables `tables`: one row per month table whose
\* suffix is BETWEEN the two suffixes; a row with a NULL sum is left out
BqFetch(tables, start_month, end_month) ==
    LET rows == {m \in DOMAIN tables :
                    /\ Suffix(start_month) <= Suffix(m)
                    /\ Suffix(m) <= Suffix(end_month)}
    IN [m \in {r \in rows : tables[r] # Null} |-> tables[m]]

\* fetch_bigquery.load_existing_csv()
BqLoadExistingCsv(file) ==
    IF ~file.exists THEN EmptyDict
    ELSE LET rows == file.rows
             keys == {rows[i][1] : i \in DOMAIN rows}
             last(k) == CHOOSE i \in DOMAIN rows :
                           /\ rows[i][1] = k
                           /\ \A j \in DOMAIN rows : rows[j][1] = k => j <= i
         IN [k \in keys |-> ParseInt(rows[last(k)][2])]

\* fetch_bigquery.save_csv(totals)
BqSaveCsv(tot) ==
    LET months == SortedMonths(DOMAIN tot)
    IN [exists |-> TRUE, header |-> CsvHeader,
        rows |-> [i \in DOMAIN months |-> <<months[i], FormatInt(tot[months[i]])>>]]

RECURSIVE AllMonths(_, _, _, _)
\* main's while loop: the months from (y, m) to (ey, em), inclusive
AllMonths(y, m, ey, em) ==
    IF MonthLeq(<<y, m>>, <<ey, em>>)
    THEN <<<<y, m>>>> \o (IF m + 1 > 12 THEN AllMonths(y + 1, 1, ey, em)
                          ELSE AllMonths(y, m + 1, ey, em))
    ELSE <<>>

\* missing = [mo for mo in all_months if mo not in existing]
Missing(all_months, existing) ==
    SelectSeq(all_months, LAMBDA mo : mo \notin DOMAIN existing)

\* (variant: a returned month is added to the cached count)
Merge_sum(existing, new_totals) ==
    [k \in (DOMAIN existing) \cup (DOMAIN new_totals) |->
        Get(existing, k, 0) + Get(new_totals, k, 0)]

\* existing.update(new_totals)
Merge(existing, new_totals) == Update(existing, new_totals)

\* (variant: the cache file is taken to be there)
CacheMissing_never(file) == FALSE

\* not csv_path.exists()
CacheMissing(file) == ~file.exists

\* code: the status of sys.exit (0: main goes on to the chart step); stderr: an
\* [ERROR] message was printed to sys.stderr
NoMain == [no_fetch |-> FALSE, start |-> <<0, 0>>, end |-> <<0, 0>>,
           exit |-> "none", queries |-> 0, span |-> <<>>,
           existing |-> EmptyDict, new_totals |-> EmptyDict, wrote |-> FALSE,
           code |-> 0, stderr |-> FALSE]

BulkIdle ==
    /\ archive = [m \in BulkMonths |-> 1]
    /\ mainRun = NoMain

\* main() up to the end of step 1 (the chart step reads the cache only).
MainRun(no_fetch, has_project, start, end) ==
    LET existing == BqLoadExistingCsv(csvFile)
        missing == Missing(AllMonths(start[1], start[2], end[1], end[2]), existing)
        new_totals == BqFetch(archive, missing[1], missing[Len(missing)])
        log == [NoMain EXCEPT !.no_fetch = no_fetch, !.start = start, !.end = end]
    IN IF ~no_fetch /\ ~has_project
       THEN /\ mainRun' = [log EXCEPT !.exit = "no_project", !.code = 1,
                                      !.stderr = TRUE]
            /\ UNCHANGED csvFile
       ELSE IF ~no_fetch /\ missing = <<>>
       THEN /\ mainRun' = [log EXCEPT !.exit = "chart", !.existing = existing]
            /\ UNCHANGED csvFile
       ELSE IF ~no_fetch
       THEN /\ csvFile' = BqSaveCsv(Merge(existing, new_totals))
            /\ mainRun' = [log EXCEPT !.exit = "chart", !.queries = 1,
                                      !.span = <<missing[1], missing[Len(missing)]>>,
                                      !.existing = existing,
                                      !.new_totals = new_totals,
                                      !.wrote = TRUE]
       ELSE IF CacheMissing(csvFile)
       THEN /\ mainRun' = [log EXCEPT !.exit = "no_data_file", !.code = 1,
                                      !.stderr = TRUE]
            /\ UNCHANGED csvFile
       ELSE /\ mainRun' = [log EXCEPT !.exit = "chart"]
            /\ UNCHANGED csvFile

\* The archive's tables change between runs (late events, a new month).
ArchiveChange(m, v) ==
    /\ archive[m] # v
    /\ archive' = [archive EXCEPT ![m] = v]
    /\ UNCHANGED <<csvFile, mainRun>>

\* ---------------------------------------------------- the label lanes
Lanes == 0..(ANNOTATION_LEVELS - 1)
\* the gaps assign_levels is called with: its default and a short one
Gaps == {MIN_DAY_GAP, 3}
\* how far the next event's date is from the one before it
Deltas == {0 - 3, 0, 3, 17, 20}

\* (variant: a lane is free again as soon as its last date is not later)
LevelFree_anyGap(placed, lvl, ev_date, gap) ==
    lvl \notin DOMAIN placed \/ ev_date - placed[lvl] >= 0

\* last is None or (ev_date - last).days >= min_day_gap
LevelFree(placed, lvl, ev_date, gap) ==
    lvl \notin DOMAIN placed \/ ev_date - placed[lvl] >= gap

\* The loop over range(ANNOTATION_LEVELS) with its break, and the fallback.
AssignLevel(placed, ev_date, gap) ==
    LET free == {lvl \in Lanes : LevelFree(placed, lvl, ev_date, gap)}
    IN IF free = {} THEN 0 ELSE Min(free)

LevelsIdle ==
    /\ events = <<>>
    /\ min_day_gap = MIN_DAY_GAP
    /\ level_last = EmptyDict
    /\ levels = <<>>

\* One iteration of `for ev in events`.
PlaceEvent(ev_date) ==
    LET assigned == AssignLevel(level_last, ev_date, min_day_gap)
    IN /\ Len(events) < MaxEvents
       /\ events' = Append(events, ev_date)
       /\ level_last' = Put(level_last, assigned, ev_date)
       /\ levels' = Append(levels, assigned)
       /\ UNCHANGED min_day_gap

\* ------------------------------------------------------------- the chart
NaN == 0 - 1
NoMonth == <<0, 0>>
NoFrame == [loaded |-> FALSE, ok |-> FALSE, month |-> <<>>, commits |-> <<>>,
            capped |-> <<>>]
\* the monthly counts a cache file may hold
CountValues == {0, 1, 5, 9, 100}
ChartMonths == {<<2023, i>> : i \in 1..MaxLen}

ChartIdle ==
    /\ plot_start = NoMonth
    /\ plot_end = NoMonth
    /\ df = NoFrame

\* twice Series.median(): the middle value, or the mean of the two middle ones
Median2(s) ==
    LET t == SortSeq(s, LAMBDA a, b : a < b)
        n == Len(s)
    IN IF n % 2 = 1 THEN 2 * t[(n + 1) \div 2] ELSE t[n \div 2] + t[n \div 2 + 1]

\* four times mad = (commits - median).abs().median()
Mad4(s) == LET med2 == Median2(s)
           IN Median2([i \in DOMAIN s |-> Abs(2 * s[i] - med2)])

\* outlier_mask: |0.6745 * (x - median) / (mad + 1)| > 3.0, in quarters
OutlierMask(s) ==
    IF s = <<>> THEN <<>>
    ELSE LET med2 == Median2(s)
             mad4 == Mad4(s)
         IN [i \in DOMAIN s |->
                6745 * 2 * Abs(2 * s[i] - med2) > 3 * 10000 * (mad4 + 4)]

\* round(): num / den to the nearest integer, halves to the even one
RoundHalfEven(num, den) ==
    LET fl == num \div den
        r2 == 2 * (num % den)
    IN IF r2 < den THEN fl
       ELSE IF r2 > den THEN fl + 1
       ELSE IF fl % 2 = 0 THEN fl ELSE fl + 1

\* (variant: a masked value repeats the last kept value before it)
Interpolated_ffill(s, mask, i) ==
    LET before == {p \in DOMAIN s : p < i /\ ~mask[p]}
    IN IF ~mask[i] THEN s[i]
       ELSE IF before = {} THEN NaN
       ELSE s[Max(before)]

\* The value interpolate(method="linear").round() leaves at position i: a
\* masked value lies on the line between the nearest kept values around it,
\* repeats the last kept value when none follows, stays NaN when none precedes.
Interpolated(s, mask, i) ==
    LET before == {p \in DOMAIN s : p < i /\ ~mask[p]}
        after == {q \in DOMAIN s : q > i /\ ~mask[q]}
    IN IF ~mask[i] THEN s[i]
       ELSE IF before = {} THEN NaN
       ELSE IF after = {} THEN s[Max(before)]
       ELSE LET p == Max(before)
                q == Min(after)
            IN RoundHalfEven(s[p] * (q - i) + s[q] * (i - p), q - p)

\* cap_outliers(df): astype("int64") raises on a NaN
CapOutliers(month, commits) ==
    LET mask == OutlierMask(commits)
        flagged == SelectSeq([i \in DOMAIN commits |-> i], LAMBDA i : mask[i])
        filled == [i \in DOMAIN commits |-> Interpolated(commits, mask, i)]
    IN IF flagged = <<>>
       THEN [loaded |-> TRUE, ok |-> TRUE, month |-> month, commits |-> commits,
             capped |-> <<>>]
       ELSE IF \E i \in DOMAIN filled : filled[i] = NaN
       THEN [loaded |-> TRUE, ok |-> FALSE, month |-> month, commits |-> <<>>,
             capped |-> [k \in DOMAIN flagged |-> month[flagged[k]]]]
       ELSE [loaded |-> TRUE, ok |-> TRUE, month |-> month, commits |-> filled,
             capped |-> [k \in DOMAIN flagged |-> month[flagged[k]]]]

\* The rows of the cache file as load_commits reads them, sorted by date.
SortedRows(file) ==
    SortSeq([i \in DOMAIN file.rows |->
                [month |-> file.rows[i][1], commits |-> ParseInt(file.rows[i][2])]],
            LAMBDA a, b : a.month # b.month /\ MonthLeq(a.month, b.month))

\* df[df["month"] >= start_month], df[df["month"] <= end_month]
InRange(month, start_month, end_month) ==
    /\ (start_month # NoMonth => MonthLeq(start_month, month))
    /\ (end_month # NoMonth => MonthLeq(month, end_month))

\* load_commits(csv_path, start_month, end_month); a file without rows has no
\* "month" column
LoadCommits(file, start_month, end_month) ==
    LET sorted == SortedRows(file)
        kept == SelectSeq(sorted, LAMBDA r : InRange(r.month, start_month, end_month))
    IN IF sorted = <<>>
       THEN [loaded |-> TRUE, ok |-> FALSE, month |-> <<>>, commits |-> <<>>,
             capped |-> <<>>]
       ELSE CapOutliers([k \in DOMAIN kept |-> kept[k].month],
                        [k \in DOMAIN kept |-> kept[k].commits])

\* The cache file holding the counts s for the first Len(s) months of 2023.
ChartFile(s) == SaveCsv([m \in {<<2023, i>> : i \in DOMAIN s} |-> s[m[2]]])

\* visualize's entry point up to the frame it plots (once per process)
LoadStep(start_month, end_month) ==
    /\ csvFile.exists
    /\ ~df.loaded
    /\ plot_start' = start_month
    /\ plot_end' = end_month
    /\ df' = LoadCommits(csvFile, start_month, end_month)
    /\ UNCHANGED csvFile

\* ------------------------------------------------------ the event overlay
\* The release dates of the catalog, <<year, month, day>>, in its order.
LLM_RELEASES ==
    << <<2020, 6, 11>>, <<2021, 6, 29>>, <<2021, 8, 10>>, <<2022, 11, 30>>,
       <<2023, 2, 24>>, <<2023, 3, 14>>, <<2023, 3, 14>>, <<2023, 3, 21>>,
       <<2023, 5, 23>>, <<2023, 5, 10>>, <<2023, 7, 11>>, <<2023, 7, 18>>,
       <<2023, 9, 27>>, <<2023, 11, 6>>, <<2023, 12, 6>>, <<2023, 12, 11>>,
       <<2024, 2, 15>>, <<2024, 3, 4>>, <<2024, 3, 27>>, <<2024, 4, 18>>,
       <<2024, 5, 13>>, <<2024, 6, 20>>, <<2024, 7, 23>>, <<2024, 7, 24>>,
       <<2024, 7, 18>>, <<2024, 8, 13>>, <<2024, 9, 12>>, <<2024, 10, 22>>,
       <<2024, 9, 25>>, <<2024, 12, 11>>, <<2024, 12, 26>>, <<2025, 1, 20>>,
       <<2025, 1, 31>>, <<2025, 2, 24>>, <<2025, 2, 5>>, <<2025, 4, 5>>,
       <<2025, 4, 14>>, <<2025, 5, 22>>, <<2025, 3, 25>> >>

IsLeap(y) == y % 4 = 0 /\ (y % 100 # 0 \/ y % 400 = 0)
DaysBeforeMonth == <<0, 31, 59, 90, 120, 151, 181, 212, 243, 273, 304, 334>>

\* date.toordinal(): date differences in days are differences of ordinals
Ordinal(d) ==
    LET y == d[1] - 1
    IN y * 365 + y \div 4 - y \div 100 + y \div 400
       + DaysBeforeMonth[d[2]] + (IF d[2] > 2 /\ IsLeap(d[1]) THEN 1 ELSE 0)
       + d[3]

\* get_events_in_range(start, end)
GetEventsInRange(start, end) ==
    SelectSeq(LLM_RELEASES,
              LAMBDA e : Ordinal(start) <= Ordinal(e) /\ Ordinal(e) <= Ordinal(end))

\* pd.to_datetime(month, format="%Y-%m").date(): the first day of the month
MonthDate(month) == <<month[1], month[2], 1>>

\* The events main and visualize's CLI pass to plot for the frame frame:
\* get_events_in_range(df["date"].min().date(), df["date"].max().date())
PlotEvents(frame) ==
    GetEventsInRange(MonthDate(frame.month[1]), MonthDate(frame.month[Len(frame.month)]))

\* the months a cache file under the chart may hold
PlotMonths == {<<2023, m>> : m \in 2..7}

\* plot(df, events): one iteration of assign_levels' loop over the events
PlotEvent ==
    /\ df.loaded /\ df.ok /\ df.month # <<>>
    /\ Len(events) < Len(PlotEvents(df))
    /\ PlaceEvent(Ordinal(PlotEvents(df)[Len(events) + 1]))

\* ---------------------------------------------------------------- the scan
NoRun == [status |-> "none", start |-> 0, end |-> 0, force |-> FALSE,
          repeat |-> FALSE, resumed |-> FALSE, resumedAfter |-> 0,
          refetch |-> FALSE, clean |-> FALSE, daysDone |-> 0,
          atBoundary |-> FALSE, expect |-> NoFile]
\* The scan before its first run, against the archive with outage day `o`.
ScanIdle(o) ==
    /\ ckptFile = NoCheckpoint
    /\ pc = "idle"
    /\ run = NoRun
    /\ done_days = {}
    /\ totals = EmptyDict
    /\ pending = <<>>
    /\ dayIdx = 0
    /\ day_commits = 0
    /\ missing_hours = 0
    /\ outageDay = o
    /\ attempted = {}
    /\ requests = 0
    /\ dayLog = <<>>
    /\ errLog = {}
    /\ memDays = [d \in Days |-> 0]
    /\ csvDays = [d \in Days |-> 0]
    /\ doneAttempts = [d \in Days |-> {}]
    /\ nruns = 0

SameRange(start, end) == run.start = start /\ run.end = end

\* fetch(start, end, force=...) up to the first day of the loop, or to its
\* early return when nothing is pending.
StartRun(start, end, force) ==
    LET done == InitialDone(force, ckptFile)
        tot == LoadExistingCsv(csvFile)
        pend == Pending(IterDateRange(start, end), done)
        resumed == /\ ~force /\ run.status = "interrupted" /\ ~run.force
                   /\ run.clean /\ SameRange(start, end)
        repeat == /\ ~force /\ run.status = "completed" /\ ~run.force
                  /\ SameRange(start, end)
        \* every day of the range is in the cache once, and the months of the
        \* range hold no other day
        refetch == \A d \in Days :
                      IF start <= d /\ d <= end THEN csvDays[d] = 1
                      ELSE (\E e \in start..end : MonthOf(e) = MonthOf(d))
                              => csvDays[d] = 0
    IN /\ pc = "idle"
       /\ nruns < MaxRuns
       /\ nruns' = nruns + 1
       /\ done_days' = done
       /\ totals' = tot
       /\ pending' = pend
       /\ memDays' = csvDays
       /\ requests' = 0
       /\ errLog' = {}
       /\ dayLog' = <<>>
       /\ attempted' = {}
       /\ day_commits' = 0
       /\ missing_hours' = 0
       /\ dayIdx' = IF pend = <<>> THEN 0 ELSE 1
       /\ pc' = IF pend = <<>> THEN "idle" ELSE "day"
       /\ run' = [status |-> IF pend = <<>> THEN "completed" ELSE "running",
                  start |-> start, end |-> end, force |-> force,
                  repeat |-> repeat, resumed |-> resumed,
                  resumedAfter |-> IF resumed /\ run.atBoundary
                                   THEN run.daysDone ELSE 0,
                  refetch |-> refetch, clean |-> TRUE,
                  daysDone |-> 0, atBoundary |-> FALSE,
                  expect |-> IF resumed THEN run.expect
                             ELSE UninterruptedCsv(csvFile, pend)]
       /\ UNCHANGED <<csvFile, ckptFile, outageDay, csvDays, doneAttempts>>

\* One iteration of `for day in pending` up to done_days.add(day): the
\* inner loop over the 24 hours, then the month total and the done set.
ProcessDay ==
    /\ pc = "day"
    /\ LET day == pending[dayIdx]
           loop == DayLoops[outageDay][day]
       IN /\ day_commits' = loop.day_commits
          /\ missing_hours' = loop.missing_hours
          /\ attempted' = loop.attempted
          /\ requests' = requests + loop.requests
          /\ errLog' = errLog \cup loop.errors
          /\ dayLog' = loop.log
          /\ totals' = AddDay(totals, day, loop.day_commits)
          /\ done_days' = done_days \cup {day}
          /\ memDays' = [memDays EXCEPT ![day] = @ + 1]
          /\ doneAttempts' = [doneAttempts EXCEPT ![day] = loop.attempted]
    /\ pc' = "save_checkpoint"
    /\ UNCHANGED <<csvFile, ckptFile, run, pending, dayIdx, outageDay, csvDays,
                   nruns>>

\* save_checkpoint(done_days)
SaveCheckpointStep ==
    /\ pc = "save_checkpoint"
    /\ ckptFile' = SaveCheckpoint(done_days)
    /\ pc' = "save_csv"
    /\ UNCHANGED <<csvFile, run, done_days, totals, pending, dayIdx,
                   day_commits, missing_hours, outageDay, attempted, requests,
                   dayLog, errLog, memDays, csvDays, doneAttempts, nruns>>

\* save_csv(totals), then the next day of the loop or the return (the locals of
\* fetch are gone once it has returned).
SaveCsvStep ==
    /\ pc = "save_csv"
    /\ csvFile' = SaveCsv(totals)
    /\ csvDays' = memDays
    /\ IF dayIdx < Len(pending)
       THEN /\ dayIdx' = dayIdx + 1
            /\ pc' = "day"
            /\ run' = [run EXCEPT !.daysDone = dayIdx]
            /\ UNCHANGED <<done_days, totals, pending, requests, errLog,
                           memDays>>
       ELSE /\ dayIdx' = 0
            /\ pc' = "idle"
            /\ run' = [run EXCEPT !.status = "completed", !.daysDone = dayIdx]
            /\ done_days' = {}
            /\ totals' = EmptyDict
            /\ pending' = <<>>
            /\ requests' = 0
            /\ errLog' = {}
            /\ memDays' = csvDays'
    /\ dayLog' = <<>>
    /\ day_commits' = 0
    /\ missing_hours' = 0
    /\ attempted' = {}
    /\ UNCHANGED <<ckptFile, outageDay, doneAttempts, nruns>>

\* The process is killed (SIGINT, power loss): only the files survive.
Interrupt ==
    /\ pc # "idle"
    /\ run' = [run EXCEPT !.status = "interrupted",
                          !.clean = run.clean /\ pc # "save_csv",
                          !.atBoundary = (pc = "day")]
    /\ pc' = "idle"
    /\ done_days' = {}
    /\ totals' = EmptyDict
    /\ pending' = <<>>
    /\ dayIdx' = 0
    /\ day_commits' = 0
    /\ missing_hours' = 0
    /\ attempted' = {}
    /\ requests' = 0
    /\ errLog' = {}
    /\ dayLog' = <<>>
    /\ memDays' = csvDays
    /\ UNCHANGED <<csvFile, ckptFile, outageDay, csvDays, doneAttempts, nruns>>

ScanNext ==
    /\ \/ \E start \in Days, end \in Days, force \in BOOLEAN :
              start <= end /\ StartRun(start, end, force)
       \/ ProcessDay
       \/ SaveCheckpointStep
       \/ SaveCsvStep
       \/ Interrupt
    /\ UNCHANGED <<bulkVars, levelVars, chartVars>>

ScanInit ==
    /\ csvFile = NoFile
    /\ \E o \in 0..MaxDay : ScanIdle(o)
    /\ BulkIdle
    /\ LevelsIdle
    /\ ChartIdle

SpecScan == ScanInit /\ [][ScanNext]_vars

\* The scan left to run: nothing stops the process, and a started run takes
\* its next step; the archive may be one where no request succeeds.
RunNext ==
    /\ \/ \E start \in Days, end \in Days, force \in BOOLEAN :
              start <= end /\ StartRun(start, end, force)
       \/ ProcessDay
       \/ SaveCheckpointStep
       \/ SaveCsvStep
    /\ UNCHANGED <<bulkVars, levelVars, chartVars>>

RunInit ==
    /\ csvFile = NoFile
    /\ \E o \in Outages : ScanIdle(o)
    /\ BulkIdle
    /\ LevelsIdle
    /\ ChartIdle

SpecRun ==
    /\ RunInit /\ [][RunNext]_vars
    /\ WF_vars(ProcessDay /\ UNCHANGED <<bulkVars, levelVars, chartVars>>)
    /\ WF_vars(SaveCheckpointStep /\ UNCHANGED <<bulkVars, levelVars, chartVars>>)
    /\ WF_vars(SaveCsvStep /\ UNCHANGED <<bulkVars, levelVars, chartVars>>)

BulkNext ==
    /\ \/ \E no_fetch \in BOOLEAN, has_project \in BOOLEAN,
             start \in BulkMonths, end \in BulkMonths :
              /\ MainRun(no_fetch, has_project, start, end)
              /\ UNCHANGED archive
       \/ \E m \in BulkMonths, v \in {Null} \cup (1..MaxCount) : ArchiveChange(m, v)
    /\ UNCHANGED <<scanLocals, levelVars, chartVars>>

BulkInit ==
    /\ csvFile = NoFile
    /\ ScanIdle(0)
    /\ BulkIdle
    /\ LevelsIdle
    /\ ChartIdle

SpecBulk == BulkInit /\ [][BulkNext]_vars

LevelsNext ==
    /\ \E ev_date \in (IF events = <<>> THEN {0}
                       ELSE {events[Len(events)] + d : d \in Deltas}) :
          PlaceEvent(ev_date)
    /\ UNCHANGED <<csvFile, scanLocals, bulkVars, chartVars>>

LevelsInit ==
    /\ csvFile = NoFile
    /\ ScanIdle(0)
    /\ BulkIdle
    /\ ChartIdle
    /\ events = <<>>
    /\ min_day_gap \in Gaps
    /\ level_last = EmptyDict
    /\ levels = <<>>

SpecLevels == LevelsInit /\ [][LevelsNext]_vars

ChartNext ==
    /\ \E start_month \in {NoMonth} \cup ChartMonths,
          end_month \in {NoMonth} \cup ChartMonths :
          LoadStep(start_month, end_month)
    /\ UNCHANGED <<scanLocals, bulkVars, levelVars>>

ChartInit ==
    /\ \E n \in 0..MaxLen : \E s \in [1..n -> CountValues] : csvFile = ChartFile(s)
    /\ ScanIdle(0)
    /\ BulkIdle
    /\ LevelsIdle
    /\ ChartIdle

SpecChart == ChartInit /\ [][ChartNext]_vars

\* The chart step on a cache file of some of PlotMonths: the load, then the
\* event markers.
PlotNext ==
    \/ /\ \E start_month \in {NoMonth} \cup PlotMonths,
             end_month \in {NoMonth} \cup PlotMonths :
             LoadStep(start_month, end_month)
       /\ UNCHANGED <<scanLocals, bulkVars, levelVars>>
    \/ /\ PlotEvent
       /\ UNCHANGED <<csvFile, scanLocals, bulkVars, chartVars>>

PlotInit ==
    /\ \E S \in SUBSET PlotMonths : csvFile = SaveCsv([m \in S |-> 1])
    /\ ScanIdle(0)
    /\ BulkIdle
    /\ LevelsIdle
    /\ ChartIdle

SpecPlot == PlotInit /\ [][PlotNext]_vars

\* ------------------------------------------------- properties of the scan
Elems(seq) == {seq[i] : i \in DOMAIN seq}
Checkpointed == LoadCheckpoint(ckptFile)
Cached == LoadExistingCsv(csvFile)
Finished == pc = "idle" /\ run.status = "completed"

\* Every attempt the retry loop can make for (day, hour) fails.
KeepsFailing(day, hr) ==
    \A a \in 1..(Len(RETRY_BACKOFF) + 1) : Response(outageDay, day, hr, a).status = "error"

\* C1: a non-force run that was interrupted at a point where the files hold
\* whole days only (after day K, or anywhere before the day's first write) and
\* is re-run with the same range ends with the cache file that one
\* uninterrupted run from the original files would have written.
C1_Resumable == (Finished /\ run.resumed) => csvFile = run.expect

\* C1 witness: the first execution was stopped after day K >= 1 of a multi-day
\* range and the re-run processed the remaining days.
C1_Witness ==
    /\ Finished /\ run.resumed /\ run.resumedAfter >= 1 /\ run.daysDone >= 1
    /\ run.end > run.start /\ csvFile.exists

\* C2 (as claimed): whenever a run may start, each day is in the checkpoint file
\* exactly if its contribution is in the cache file.
C2_AtomicPerDay ==
    pc = "idle" => \A d \in Days : (d \in Checkpointed) <=> (csvDays[d] >= 1)

\* C3: a non-force run over the range of the non-force run that has just
\* completed finds nothing pending, returns at once without a request and
\* leaves both files as they were.
C3_Idempotent ==
    [][run'.repeat => /\ pending' = <<>>
                      /\ requests' = 0
                      /\ pc' = "idle"
                      /\ run'.status = "completed"
                      /\ csvFile' = csvFile
                      /\ ckptFile' = ckptFile]_vars

\* C3 witness: the second run over a completed multi-day range has returned.
C3_Witness ==
    /\ Finished /\ run.repeat /\ run.end > run.start
    /\ csvFile.exists /\ \A d \in run.start..run.end : d \in Checkpointed

\* C5 (as claimed): after a force run over days that were each in the cache
\* once, every month of the range holds one pass over those days.
C5_ForceOverwrites ==
    (Finished /\ run.force /\ run.refetch) =>
        \A d \in run.start..run.end :
            Get(Cached, MonthOf(d), 0) =
                Get(RunTotals(EmptyDict, IterDateRange(run.start, run.end)),
                    MonthOf(d), 0)

\* C6: a day is in the completed set, in memory or in the checkpoint file,
\* only if the run that added it attempted all 24 hours of the day.
C6_DoneOnlyAfterAllHours ==
    \A d \in done_days \cup Checkpointed : doneAttempts[d] = Hours

\* C6 witness: a day has just been added in memory, not yet on disk, after a
\* loop that saw a success, a not-found answer and an exhausted fetch.
C6_Witness ==
    /\ pc = "save_checkpoint"
    /\ pending[dayIdx] \in done_days \ Checkpointed
    /\ \E i, j, k \in DOMAIN dayLog :
          /\ ~dayLog[i].raised /\ dayLog[i].n > 0
          /\ ~dayLog[j].raised /\ dayLog[j].n = 0 - 1
          /\ dayLog[k].raised /\ dayLog[k].logged

\* C7, the part on one day: an hour that keeps failing is tried 6 times with
\* the delays 2, 5, 15, 30, 60 between the tries and adds nothing; all 24
\* hours are fetched, the day's total is the sum of the other hours, and the
\* day is in the completed set.
C7_DegradedDay ==
    pc \in {"save_checkpoint", "save_csv"} =>
        LET day == pending[dayIdx] IN
        /\ Len(dayLog) = HoursPerDay
        /\ \A i \in DOMAIN dayLog :
              /\ dayLog[i].hour = i - 1
              /\ KeepsFailing(day, i - 1) =>
                    /\ dayLog[i].slept = <<2, 5, 15, 30, 60>>
                    /\ dayLog[i].attempts = 6
                    /\ dayLog[i].contrib = 0
        /\ day_commits = SumSeq([i \in DOMAIN dayLog |->
                              IF dayLog[i].raised \/ dayLog[i].n < 0
                              THEN 0 ELSE dayLog[i].n])
        /\ day \in done_days
        /\ pc = "save_csv" => day \in Checkpointed

\* C7 (as claimed): the above, and a day with an hour that kept failing, once
\* its total is saved, is not pending in any later run without force.
C7_DegradedProgress ==
    /\ C7_DegradedDay
    /\ (pc = "day" /\ dayIdx = 1 /\ ~run.force) =>
          \A d \in Days :
              ((\E h \in Hours : KeepsFailing(d, h)) /\ csvDays[d] >= 1)
                  => d \notin Elems(pending)

\* ------------------------------------------- properties of the bulk path
\* C4: when main's fetch step has queried a span, every month the query
\* returned holds the returned count in the saved cache (not the old count
\* plus the new one), and every other cached month keeps its value.
C4_MergeOverwrites ==
    mainRun.wrote =>
        LET saved == BqLoadExistingCsv(csvFile) IN
        /\ csvFile.exists
        /\ DOMAIN saved = (DOMAIN mainRun.existing) \cup (DOMAIN mainRun.new_totals)
        /\ \A m \in DOMAIN mainRun.new_totals : saved[m] = mainRun.new_totals[m]
        /\ \A m \in (DOMAIN mainRun.existing) \ (DOMAIN mainRun.new_totals) :
              saved[m] = mainRun.existing[m]

\* C4 witness: the queried span held a cached month, between two missing ones,
\* whose count the query returned changed; the saved cache holds the new count,
\* which is neither the old one nor the sum.
C4_Witness ==
    /\ mainRun.wrote
    /\ \E m \in (DOMAIN mainRun.existing) \cap (DOMAIN mainRun.new_totals) :
          /\ mainRun.existing[m] # mainRun.new_totals[m]
          /\ Suffix(mainRun.span[1]) < Suffix(m)
          /\ Suffix(m) < Suffix(mainRun.span[2])
          /\ BqLoadExistingCsv(csvFile)[m] = mainRun.new_totals[m]

\* -------------------------------------------- properties of the label lanes
IsSorted(seq) == \A i, j \in DOMAIN seq : i < j => seq[i] <= seq[j]

\* When event j was placed, every lane's last-placed event was less than the
\* gap before it.
AllLanesBusy(j) ==
    \A lane \in Lanes :
        \E i \in 1..(j - 1) :
            /\ levels[i] = lane
            /\ \A k \in (i + 1)..(j - 1) : levels[k] # lane
            /\ events[j] - events[i] < min_day_gap

\* C8: in the lanes of a chronologically sorted event list, two events less
\* than min_day_gap days apart share a lane only if, when the later one was
\* placed, every lane's last-placed date was less than min_day_gap days before
\* it; and that later event is in lane 0.
C8_LaneSeparation ==
    IsSorted(events) =>
        /\ Len(levels) = Len(events)
        /\ \A i, j \in DOMAIN events :
              (i < j /\ levels[i] = levels[j] /\ events[j] - events[i] < min_day_gap)
                  => (AllLanesBusy(j) /\ levels[j] = 0)
        /\ \A j \in DOMAIN events : AllLanesBusy(j) => levels[j] = 0

\* C8 witness: a sorted list in which all six lanes are in use, one event fell
\* back to lane 0 on top of a close earlier one, and one lane was reused by an
\* event at exactly the gap.
C8_Witness ==
    /\ IsSorted(events)
    /\ min_day_gap = MIN_DAY_GAP
    /\ \E i, j \in DOMAIN events :
          /\ i < j /\ levels[i] = 0 /\ levels[j] = 0
          /\ events[j] - events[i] < min_day_gap
          /\ AllLanesBusy(j)
    /\ \E i, j \in DOMAIN events :
          /\ i < j /\ levels[i] = levels[j]
          /\ events[j] - events[i] = min_day_gap

\* ------------------------------------------------ properties of the chart
\* the frame cap_outliers was given by the last load, and its mask
CapInput == LET sorted == SortedRows(csvFile)
                kept == SelectSeq(sorted, LAMBDA r : InRange(r.month, plot_start, plot_end))
            IN [k \in DOMAIN kept |-> kept[k].commits]
CapInputMonths ==
    LET sorted == SortedRows(csvFile)
        kept == SelectSeq(sorted, LAMBDA r : InRange(r.month, plot_start, plot_end))
    IN [k \in DOMAIN kept |-> kept[k].month]

\* C9 (as claimed): the frame load_commits returns is the requested range of
\* the series capped as a whole.
C9_CapBeforeRestrict ==
    LET all == LoadCommits(csvFile, NoMonth, NoMonth)
        inRange == SelectSeq([i \in DOMAIN all.month |-> i],
                             LAMBDA i : InRange(all.month[i], plot_start, plot_end))
    IN (df.loaded /\ df.ok /\ all.ok) =>
          /\ df.month = [k \in DOMAIN inRange |-> all.month[inRange[k]]]
          /\ df.commits = [k \in DOMAIN inRange |-> all.commits[inRange[k]]]

\* Position i of x is the one spike: the only value equal to 100 times the
\* median, with a neighbour on each side that is not flagged.
OneSpike(x, i) ==
    /\ 1 < i /\ i < Len(x)
    /\ \A k \in DOMAIN x : (2 * x[k] = 100 * Median2(x)) <=> (k = i)
    /\ ~OutlierMask(x)[i - 1]
    /\ ~OutlierMask(x)[i + 1]

\* What the claim says of the capped frame.
SpikeCapped(x, i) ==
    /\ df.ok
    /\ Len(df.commits) = Len(x)
    /\ Abs(2 * df.commits[i] - (x[i - 1] + x[i + 1])) <= 2
    /\ \A k \in DOMAIN x : k # i => df.commits[k] = x[k]
    /\ df.capped = <<CapInputMonths[i]>>

\* C10 (as claimed): a series with one spike of 100 times the median between
\* unflagged neighbours comes back with the spike within 1 of the mean of the
\* neighbours, every other value unchanged, and one capped month.
C10_OutlierRoundTrip ==
    df.loaded => \A i \in DOMAIN CapInput : OneSpike(CapInput, i) => SpikeCapped(CapInput, i)

\* C10 (amended): the same for a series in which nothing but the spike is
\* flagged.
C10_OutlierRoundTripAlone ==
    df.loaded =>
        \A i \in DOMAIN CapInput :
            (/\ OneSpike(CapInput, i)
             /\ \A k \in DOMAIN CapInput : k # i => ~OutlierMask(CapInput)[k])
                => SpikeCapped(CapInput, i)

\* C10 witness: a spike between two unflagged neighbours that differ by more
\* than 2, nothing else flagged, has been capped.
C10_Witness ==
    /\ df.loaded /\ df.ok
    /\ \E i \in DOMAIN CapInput :
          /\ OneSpike(CapInput, i)
          /\ \A k \in DOMAIN CapInput : k # i => ~OutlierMask(CapInput)[k]
          /\ Abs(CapInput[i - 1] - CapInput[i + 1]) > 2
          /\ df.commits[i] # CapInput[i]
          /\ Len(df.capped) = 1

\* C11: a run of main with --no-fetch that finds no cache file exits with
\* status 1 after an error message, issues no query, and leaves the cache
\* file (still absent) and the checkpoint file as they were.
C11_NoFetchWithoutCache ==
    [][(mainRun' # mainRun /\ mainRun'.no_fetch /\ ~csvFile.exists) =>
          /\ mainRun'.code = 1
          /\ mainRun'.stderr
          /\ mainRun'.queries = 0
          /\ ~mainRun'.wrote
          /\ csvFile' = csvFile
          /\ ckptFile' = ckptFile]_vars

\* C11 witness: main has exited on the missing cache file.
C11_Witness ==
    /\ mainRun.no_fetch /\ mainRun.exit = "no_data_file" /\ mainRun.code = 1
    /\ ~csvFile.exists /\ ~ckptFile.exists

\* The months of the rows are strictly ascending.
RowsAscending(rows) ==
    \A i, j \in DOMAIN rows :
        i < j => (rows[i][1] # rows[j][1] /\ MonthLeq(rows[i][1], rows[j][1]))

\* C12: the cache file holds the header and one row per month in ascending
\* month order; right after save_csv(totals) loading it gives totals back; and
\* loading and saving it again, with the pair of either module, writes the
\* same file.
C12_CsvRoundTrip ==
    /\ csvFile.exists =>
          /\ csvFile.header = <<"month", "commits">>
          /\ RowsAscending(csvFile.rows)
          /\ Len(csvFile.rows) = Cardinality(DOMAIN LoadExistingCsv(csvFile))
          /\ SaveCsv(LoadExistingCsv(csvFile)) = csvFile
          /\ BqSaveCsv(BqLoadExistingCsv(csvFile)) = csvFile
          /\ BqLoadExistingCsv(csvFile) = LoadExistingCsv(csvFile)
    /\ (pc = "day" /\ dayIdx > 1) => LoadExistingCsv(csvFile) = totals

\* C12 witness: a file of two months, one with a count of several digits, has
\* just been written from the totals in memory.
C12_Witness ==
    /\ pc = "day" /\ dayIdx > 1
    /\ Len(csvFile.rows) >= 2
    /\ \E i \in DOMAIN csvFile.rows : Len(csvFile.rows[i][2]) >= 2
    /\ \E m \in DOMAIN totals : totals[m] >= 10

\* ---- the hours of the day just processed
\* The answer the hour's last request got.
LastResponse(i) == Response(outageDay, pending[dayIdx], i - 1, dayLog[i].attempts)

RECURSIVE WellFormedCount(_)
\* The sizes of the well-formed PushEvent records among the lines.
WellFormedCount(lines) ==
    IF lines = <<>> THEN 0
    ELSE LET line == Head(lines)
         IN (IF /\ line.kind = "event" /\ line.type = "PushEvent"
                /\ line.payloadIsDict /\ line.sizeIsInt /\ line.size > 0
             THEN line.size ELSE 0) + WellFormedCount(Tail(lines))

\* C13 (as claimed): an hour whose resource was fetched and read to its end
\* contributes the sizes of all its well-formed PushEvent records, whatever
\* malformed records lie between them.
C13_MalformedSkipped ==
    pc \in {"save_checkpoint", "save_csv"} =>
        \A i \in DOMAIN dayLog :
            (/\ LastResponse(i).status = "200"
             /\ \A k \in DOMAIN LastResponse(i).lines :
                    LastResponse(i).lines[k].kind # "truncated")
                => /\ ~dayLog[i].raised
                   /\ dayLog[i].contrib = WellFormedCount(LastResponse(i).lines)

\* C14 (as claimed): every hour of the processed day for which
\* stream_hourly_file raised has an error line on the error stream.
C14_DegradedLogged ==
    pc \in {"save_checkpoint", "save_csv"} =>
        \A i \in DOMAIN dayLog :
            dayLog[i].raised =>
                /\ dayLog[i].logged
                /\ <<pending[dayIdx], i - 1>> \in errLog

\* What holds at each point of an uninterrupted run: the pending days are in
\* ascending date order and taken in that order; the hours of the day just
\* processed were fetched in the order 0..23, each with at most 6 requests, and
\* the run has issued no other request.
RunInOrder ==
    /\ \A i, j \in DOMAIN pending : i < j => pending[i] < pending[j]
    /\ pc # "idle" => (dayIdx \in DOMAIN pending /\ run.daysDone = dayIdx - 1)
    /\ pc \in {"save_checkpoint", "save_csv"} =>
          /\ Len(dayLog) = HoursPerDay
          /\ \A i \in DOMAIN dayLog :
                /\ dayLog[i].hour = i - 1
                /\ dayLog[i].attempts >= 1
                /\ dayLog[i].attempts <= 6
                /\ Len(dayLog[i].slept) = dayLog[i].attempts - 1
          /\ requests <= 6 * HoursPerDay * dayIdx
    /\ pc = "day" => requests <= 6 * HoursPerDay * (dayIdx - 1)

\* C15: every started run comes to its end even against an archive where
\* every request fails; on the way it fetches days and hours in order with at
\* most 6 requests for an hour, and at its end every day of its range is in
\* the checkpoint file.
C15_NoUnboundedStall ==
    /\ [](RunInOrder)
    /\ [](Finished => \A d \in run.start..run.end : d \in Checkpointed)
    /\ (run.status = "running") ~> Finished

\* C15 witness: a run over several days against the archive where every
\* request fails has ended, with all its days in the checkpoint file and
\* nothing counted.
C15_Witness ==
    /\ outageDay = AllDown
    /\ Finished /\ run.end > run.start /\ run.daysDone >= 2
    /\ \A d \in run.start..run.end : d \in Checkpointed
    /\ \A m \in DOMAIN Cached : Cached[m] = 0
    /\ csvFile.exists

\* C16 (as claimed): the events placed so far under the chart are in
\* non-decreasing date order, and no lane's last-placed date is later than the
\* date of the last event placed.
C16_EventsChronological ==
    /\ IsSorted(events)
    /\ events # <<>> =>
          \A lane \in DOMAIN level_last : level_last[lane] <= events[Len(events)]

\* C17, the part on the last point: a flagged last point after a kept one
\* takes the value of that point (when no flagged first point stops the call).
C17_FlaggedLast ==
    df.loaded =>
        LET x == CapInput
            n == Len(x)
        IN (n >= 2 /\ OutlierMask(x)[n] /\ ~OutlierMask(x)[n - 1] /\ ~OutlierMask(x)[1])
              => (df.ok /\ df.commits[n] = x[n - 1])

\* C17 (as claimed): the above, and a flagged first point before a kept one
\* takes the value of that point, the call completing.
C17_BoundaryOutlier ==
    /\ C17_FlaggedLast
    /\ df.loaded =>
          LET x == CapInput
          IN (Len(x) >= 2 /\ OutlierMask(x)[1] /\ ~OutlierMask(x)[2])
                => (df.ok /\ df.commits[1] = x[2])

\* C18 (as claimed): a day whose total has been saved to the cache was in the
\* checkpoint file when it was saved; whenever a later run has ended, by its
\* return or by a stop, the day is still in the checkpoint file.
C18_CheckpointOnlyGrows ==
    pc = "idle" => \A d \in Days : csvDays[d] >= 1 => d \in Checkpointed
====
